---- MODULE Spec2Model ----
(***************************************************************************)
(* Internet Identity stable-memory storage (storage.rs).                   *)
(*                                                                         *)
(* The backing stable memory is a byte array that only grows, in pages of  *)
(* WASM_PAGE_SIZE bytes.  The code's u64 byte addresses reach 2^35, wider  *)
(* than TLC's integers, so a u64 is kept as a pair <<hi, lo>> of base-2^16 *)
(* limbs; as WASM_PAGE_SIZE = 2^16, the high limb of an address is its     *)
(* page and the low limb its offset within the page.  The memory's bytes   *)
(* are kept sparsely: a byte that was never written reads as zero, as the  *)
(* platform guarantees of freshly grown pages.                             *)
(***************************************************************************)
EXTENDS Integers, Sequences, FiniteSets, TLC

(***************************************************************************)
(* Program constants (storage.rs:95-127, 268-272).                         *)
(***************************************************************************)
WASM_PAGE_SIZE == 65536
MIN_SUPPORTED_VERSION == 6
MAX_SUPPORTED_VERSION == 7
DEFAULT_ENTRY_SIZE == 4096
BUCKET_SIZE_IN_PAGES == 128
ANCHOR_MEMORY_INDEX == 0
HEADER_SIZE == 66
MAX_NUM_MEMORIES == 255
MAX_NUM_BUCKETS == 32768
HEADER_RESERVED_BYTES == 32
U16_MODULUS == 65536

\* ---------------------------------------------------------------- u64 ----
\* A u64 is <<hi, lo>> with 0 <= lo < 2^16; hi stays below 2^31 in the model.
W(hi, lo) == <<hi + (lo \div WASM_PAGE_SIZE), lo % WASM_PAGE_SIZE>>

U64(n) == W(0, n)

WAdd(a, n) == W(a[1], a[2] + n)

WLess(a, b) == a[1] < b[1] \/ (a[1] = b[1] /\ a[2] < b[2])

WLeq(a, b) == a = b \/ WLess(a, b)

\* a - b for a >= b
WSub(a, b) ==
    IF a[2] >= b[2] THEN <<a[1] - b[1], a[2] - b[2]>>
    ELSE <<a[1] - b[1] - 1, a[2] + WASM_PAGE_SIZE - b[2]>>

\* a * k for a small factor k (k < 2^15)
WMul(a, k) == W(a[1] * k, a[2] * k)

\* a / d (integer division) for a small divisor d (d <= 2^15)
WDiv(a, d) == <<a[1] \div d, (((a[1] % d) * WASM_PAGE_SIZE) + a[2]) \div d>>

\* the integer a u64 stands for, when it fits TLC's integers
WInt(a) == a[1] * WASM_PAGE_SIZE + a[2]

\* n * k as a u64, for n < 2^31 and k < 2^15
WProd(n, k) == W((n \div WASM_PAGE_SIZE) * k, (n % WASM_PAGE_SIZE) * k)

\* the distance a - b of two nearby addresses, as an integer
WDist(a, b) == (a[1] - b[1]) * WASM_PAGE_SIZE + (a[2] - b[2])

GB == <<16384, 0>>
MAX_STABLE_MEMORY_SIZE == WMul(GB, 32)
\* MAX_STABLE_MEMORY_SIZE / WASM_PAGE_SIZE: the high limb
MAX_WASM_PAGES == MAX_STABLE_MEMORY_SIZE[1]
STABLE_MEMORY_SIZE == WMul(GB, 32)
STABLE_MEMORY_RESERVE == WDiv(WMul(GB, 8), 10)
ENTRY_OFFSET == 2 * WASM_PAGE_SIZE
EMPTY_SALT == [i \in 1..32 |-> 0]
PERSISTENT_STATE_MAGIC == <<73, 73, 80, 83>>
STORAGE_MAGIC == <<73, 73, 67>>
MM_MAGIC == <<77, 71, 82>>
UNALLOCATED_BUCKET_MARKER == MAX_NUM_MEMORIES

\* (STABLE_MEMORY_SIZE - first_entry_offset - STABLE_MEMORY_RESERVE) / entry_size
EntriesThatFit(first_entry_offset, entry_size) ==
    WInt(WDiv(WSub(WSub(STABLE_MEMORY_SIZE, U64(first_entry_offset)),
                   STABLE_MEMORY_RESERVE), entry_size))

DEFAULT_RANGE_SIZE == EntriesThatFit(ENTRY_OFFSET, DEFAULT_ENTRY_SIZE)

\* ------------------------------------------------------- raw memory ----
(***************************************************************************)
(* The Memory trait of the stable-structures library (spec 4.1): a memory  *)
(* is [pages, bytes, runs].  bytes maps an address to its byte where that  *)
(* byte differs from the background; runs is a set of [lo, len, byte]: a   *)
(* region written with len copies of one byte (the bucket table's 0xFF),   *)
(* which is the background there; everywhere else the background is 0.     *)
(***************************************************************************)
NoBytes == [x \in {} |-> 0]

EmptyMemory == [pages |-> 0, bytes |-> NoBytes, runs |-> {}]

InRun(r, a) == WLeq(r.lo, a) /\ WLess(a, WAdd(r.lo, r.len))

RunByte(runs, a) ==
    IF \E r \in runs : InRun(r, a)
    THEN (CHOOSE r \in runs : InRun(r, a)).byte
    ELSE 0

MemByte(m, a) == IF a \in DOMAIN m.bytes THEN m.bytes[a] ELSE RunByte(m.runs, a)

MemRead(m, a, len) == [i \in 1..len |-> MemByte(m, WAdd(a, i - 1))]

AddrRange(a, len) == {WAdd(a, i) : i \in 0..(len - 1)}

\* Memory::write of data at address a (the caller has grown the memory)
MemWrite(m, a, data) ==
    LET rng == AddrRange(a, Len(data))
        fresh == {i \in 1..Len(data) : data[i] # RunByte(m.runs, WAdd(a, i - 1))}
        written == [x \in {WAdd(a, i - 1) : i \in fresh} |-> data[WDist(x, a) + 1]]
        kept == [x \in (DOMAIN m.bytes) \ rng |-> m.bytes[x]]
    IN [m EXCEPT !.bytes = written @@ kept]

\* Memory::write of len copies of byte b at address a: the run replaces what
\* it covers of the bytes and of the older runs
MemWriteRun(m, a, len, b) ==
    LET r == [lo |-> a, len |-> len, byte |-> b]
        end == WAdd(a, len)
        keep == {x \in DOMAIN m.bytes : ~InRun(r, x)}
        before(o) == [lo |-> o.lo, byte |-> o.byte,
                      len |-> IF WLess(a, WAdd(o.lo, o.len)) THEN WDist(a, o.lo) ELSE o.len]
        after(o) == [lo |-> IF WLess(o.lo, end) THEN end ELSE o.lo, byte |-> o.byte,
                     len |-> IF WLess(o.lo, end) THEN WDist(WAdd(o.lo, o.len), end)
                             ELSE o.len]
        left == {before(o) : o \in {q \in m.runs : WLess(q.lo, a)}}
                    \cup {after(o) : o \in {q \in m.runs : WLess(end, WAdd(q.lo, q.len))}}
        others == {o \in left : o.len > 0}
    IN IF len <= 0 THEN m
       ELSE [m EXCEPT !.bytes = [x \in keep |-> m.bytes[x]],
                      !.runs = IF b = 0 THEN others ELSE others \cup {r}]

\* Memory::grow: a delta below 0 stands for a wrapped u64 (2^64 + delta),
\* which no memory can grant; the result is [ok, mem]
MemGrow(m, delta) ==
    IF delta < 0 THEN [ok |-> FALSE, mem |-> m]
    ELSE [ok |-> TRUE, mem |-> [m EXCEPT !.pages = m.pages + delta]]

\* ------------------------------------------------ restricted memory ----
\* RestrictedMemory::new(memory, lo..hi) (spec 4.2)
Restricted(lo, hi) == [kind |-> "restricted", lo |-> lo, hi |-> hi]

RSize(v, m) ==
    IF m.pages < v.lo THEN 0
    ELSE IF m.pages > v.hi THEN v.hi - v.lo
    ELSE m.pages - v.lo

RGrow(v, m, delta) ==
    IF m.pages < v.lo THEN MemGrow(m, (v.lo - m.pages) + delta)
    ELSE IF m.pages >= v.hi THEN [ok |-> delta = 0, mem |-> m]
    ELSE IF v.hi - m.pages < delta \/ delta < 0 THEN [ok |-> FALSE, mem |-> m]
    ELSE MemGrow(m, delta)

RAddr(v, off) == <<off[1] + v.lo, off[2]>>

\* ------------------------------------------------------------ bytes ----
Pow256(i) == IF i = 0 THEN 1 ELSE IF i = 1 THEN 256 ELSE IF i = 2 THEN 65536 ELSE 16777216

\* n.to_le_bytes() for an unsigned integer of k bytes (n < 2^31)
LE(n, k) == [i \in 1..k |-> IF i <= 4 THEN (n \div Pow256(i - 1)) % 256 ELSE 0]

\* from_le_bytes; -1 stands for any value of 2^31 or more, which the model's
\* stores never hold
FromLE(b) ==
    IF \E i \in 1..Len(b) : b[i] # 0 /\ (i > 4 \/ (i = 4 /\ b[i] >= 128)) THEN -1
    ELSE LET v(i) == IF i <= Len(b) THEN b[i] * Pow256(i - 1) ELSE 0
         IN v(1) + v(2) + v(3) + v(4)

Zeros(k) == [i \in 1..k |-> 0]

\* ceil(p / q)
CeilDiv(p, q) == (p + q - 1) \div q

\* --------------------------------------------------- memory manager ----
(***************************************************************************)
(* MemoryManager of the stable-structures library over the backing memory  *)
(* from page 1 on (spec 4.3; the header layout is the copy in mod mm).     *)
(* Its in-memory state is [allocated_buckets, size0, buckets0]: the number *)
(* of buckets handed out, the size in pages of virtual memory 0 (the       *)
(* anchor memory, the only one the storage uses) and that memory's         *)
(* physical buckets in logical order.                                      *)
(***************************************************************************)
MMBase == Restricted(1, MAX_WASM_PAGES)

MM_HEADER_SIZE == 3 + 1 + 2 + 2 + HEADER_RESERVED_BYTES + (MAX_NUM_MEMORIES * 8)

\* offset of the bucket table within the memory manager's memory
BUCKETS_OFFSET == MM_HEADER_SIZE

\* the first page of the bucket region within the memory manager's memory
BUCKETS_OFFSET_IN_PAGES == 1

NoMM == [allocated_buckets |-> 0, size0 |-> 0, buckets0 |-> <<>>]

\* mm::Header as bytes, up to memory_sizes_in_pages[0]: magic, version,
\* num_allocated_buckets, bucket_size_in_pages, reserved, the size of memory 0
MMHeaderHead(num_allocated_buckets, size0) ==
    MM_MAGIC \o <<1>> \o LE(num_allocated_buckets, 2) \o LE(BUCKET_SIZE_IN_PAGES, 2)
        \o Zeros(HEADER_RESERVED_BYTES) \o LE(size0, 8)

\* the rest of mm::Header: the sizes of the memories 1..254, all 0
MM_HEADER_TAIL == (MAX_NUM_MEMORIES - 1) * 8

\* Memory::write of data followed by pad zero bytes
MemWritePadded(m, a, data, pad) ==
    MemWriteRun(MemWrite(m, a, data), WAdd(a, Len(data)), pad, 0)

\* the library's write(memory, offset, bytes) of data and pad zero bytes:
\* grows the memory as needed
LibWrite(v, m, off, data, pad) ==
    LET end == WAdd(off, Len(data) + pad)
        size == RSize(v, m)
        g == IF WLess(<<size, 0>>, end)
             THEN RGrow(v, m, CeilDiv(WDist(end, <<size, 0>>), WASM_PAGE_SIZE))
             ELSE [ok |-> TRUE, mem |-> m]
    IN MemWritePadded(g.mem, RAddr(v, off), data, pad)

\* MemoryManagerInner::save_header
MMSaveHeader(m, mm) ==
    LibWrite(MMBase, m, U64(0), MMHeaderHead(mm.allocated_buckets, mm.size0),
             MM_HEADER_TAIL)

\* MemoryManagerInner::new: a header with no buckets, every bucket unallocated
MMNew(m) ==
    LET m1 == MMSaveHeader(m, NoMM)
    IN [mem |-> MemWriteRun(m1, RAddr(MMBase, U64(BUCKETS_OFFSET)), MAX_NUM_BUCKETS,
                            UNALLOCATED_BUCKET_MARKER),
        mm |-> NoMM]

TableAddr(i) == RAddr(MMBase, U64(BUCKETS_OFFSET + i))

\* the buckets whose table entry names memory 0, {i : table[i] = 0}, read off
\* the sparse bytes: outside the runs only an explicit byte can differ from 0,
\* inside a run (of a byte other than 0) only an explicit byte can be 0
TableZeros(m) ==
    LET base == TableAddr(0)
        all == 0..(MAX_NUM_BUCKETS - 1)
        explicit == {WDist(x, base) : x \in {y \in DOMAIN m.bytes :
                         WLeq(base, y) /\ WLess(y, WAdd(base, MAX_NUM_BUCKETS))}}
        runs == {[lo |-> WDist(q.lo, base), hi |-> WDist(q.lo, base) + q.len] :
                     q \in {r \in m.runs : r.lo[1] = base[1]}}
        unfilled == IF runs = {} THEN all
                    ELSE IF \E r \in runs : runs = {r} /\ r.hi = MAX_NUM_BUCKETS
                    THEN 0..((CHOOSE r \in runs : TRUE).lo - 1)
                    ELSE {i \in all : \A r \in runs : i < r.lo \/ i >= r.hi}
    IN {i \in explicit : m.bytes[TableAddr(i)] = ANCHOR_MEMORY_INDEX}
           \cup (unfilled \ explicit)

\* a set of numbers as the sequence of its elements in ascending order
RECURSIVE Ascending(_)
Ascending(S) ==
    IF S = {} THEN <<>>
    ELSE IF S = 0..(Cardinality(S) - 1) THEN [i \in 1..Cardinality(S) |-> i - 1]
    ELSE LET hi == CHOOSE x \in S : \A y \in S : y <= x
         IN Append(Ascending(S \ {hi}), hi)

\* MemoryManagerInner::load
MMLoad(m) ==
    LET hdr == MemRead(m, RAddr(MMBase, U64(0)), 48)
    IN [mem |-> m,
        mm |-> [allocated_buckets |-> FromLE(SubSeq(hdr, 5, 6)),
                size0 |-> FromLE(SubSeq(hdr, 41, 48)),
                buckets0 |-> Ascending(TableZeros(m))]]

\* MemoryManager::init_with_bucket_size(RestrictedMemory(memory, 1..MAX), 128)
MMInit(m) ==
    IF RSize(MMBase, m) = 0 THEN MMNew(m)
    ELSE IF MemRead(m, RAddr(MMBase, U64(0)), 3) # MM_MAGIC THEN MMNew(m)
    ELSE MMLoad(m)

\* VirtualMemory::grow of memory 0: [ok, mem, mm]
VmGrow(m, mm, pages) ==
    LET new_size == mm.size0 + pages
        needed == CeilDiv(new_size, BUCKET_SIZE_IN_PAGES)
                      - CeilDiv(mm.size0, BUCKET_SIZE_IN_PAGES)
        ids == [j \in 1..needed |-> mm.allocated_buckets + j - 1]
        m1 == IF needed = 0 THEN m
              ELSE LibWrite(MMBase, m, U64(BUCKETS_OFFSET + mm.allocated_buckets),
                            [j \in 1..needed |-> ANCHOR_MEMORY_INDEX], 0)
        allocated == mm.allocated_buckets + needed
        pages_needed == BUCKETS_OFFSET_IN_PAGES + BUCKET_SIZE_IN_PAGES * allocated
        g == IF pages_needed > RSize(MMBase, m1)
             THEN RGrow(MMBase, m1, pages_needed - RSize(MMBase, m1))
             ELSE [ok |-> TRUE, mem |-> m1]
        mm2 == [allocated_buckets |-> allocated, size0 |-> new_size,
                buckets0 |-> mm.buckets0 \o ids]
    IN IF pages < 0 \/ needed + mm.allocated_buckets > MAX_NUM_BUCKETS \/ ~g.ok
       THEN [ok |-> FALSE, mem |-> m, mm |-> mm]
       ELSE [ok |-> TRUE, mem |-> MMSaveHeader(g.mem, mm2), mm |-> mm2]

\* the backing address of byte off of virtual memory 0 (bucket translation)
VmAddr(mm, off) ==
    LET logical == off[1] \div BUCKET_SIZE_IN_PAGES
        physical == mm.buckets0[logical + 1]
    IN RAddr(MMBase, <<BUCKETS_OFFSET_IN_PAGES + physical * BUCKET_SIZE_IN_PAGES
                          + (off[1] % BUCKET_SIZE_IN_PAGES), off[2]>>)

\* the bytes of [off, off + len) that lie in the bucket of off
InBucket(off, len) ==
    LET next == <<((off[1] \div BUCKET_SIZE_IN_PAGES) + 1) * BUCKET_SIZE_IN_PAGES, 0>>
        room == IF next[1] - off[1] > 1 THEN len ELSE WDist(next, off)
    IN IF room < len THEN room ELSE len

\* ---------------------------------------------------- header codec ----
\* struct Header (packed, 66 bytes)
MkHeader(version, num_anchors, lo, hi, entry_size, salt, first_entry_offset) ==
    [magic |-> STORAGE_MAGIC, version |-> version, num_anchors |-> num_anchors,
     id_range_lo |-> lo, id_range_hi |-> hi, entry_size |-> entry_size,
     salt |-> salt, first_entry_offset |-> first_entry_offset]

\* the header as the bytes the unsafe slice cast yields on a little-endian target
HeaderBytes(h) ==
    h.magic \o <<h.version>> \o LE(h.num_anchors, 4) \o LE(h.id_range_lo, 8)
        \o LE(h.id_range_hi, 8) \o LE(h.entry_size, 2) \o h.salt
        \o LE(h.first_entry_offset, 8)

\* the bytes read back into a zeroed Header
HeaderFromBytes(b) ==
    [magic |-> SubSeq(b, 1, 3), version |-> b[4],
     num_anchors |-> FromLE(SubSeq(b, 5, 8)),
     id_range_lo |-> FromLE(SubSeq(b, 9, 16)),
     id_range_hi |-> FromLE(SubSeq(b, 17, 24)),
     entry_size |-> FromLE(SubSeq(b, 25, 26)),
     salt |-> SubSeq(b, 27, 58),
     first_entry_offset |-> FromLE(SubSeq(b, 59, 66))]

\* ------------------------------------------------------------ codec ----
(***************************************************************************)
(* candid::encode_one / decode_one, opaque to the storage (spec 1): an     *)
(* anchor value v >= 1 encodes to the magic "DIDL" and v more bytes, the   *)
(* last of which is not 0, so values differ in length and a shorter        *)
(* record leaves a longer one's tail behind it.                            *)
(***************************************************************************)
DIDL == <<68, 73, 68, 76>>

Encode(v) == DIDL \o [i \in 1..v |-> IF i = v THEN (v % 255) + 1 ELSE 0]

Encodable == 1..DEFAULT_ENTRY_SIZE

\* decode_one: [ok, val]
Decode(b) ==
    IF Len(b) > 4 /\ Len(b) - 4 \in Encodable /\ b = Encode(Len(b) - 4)
    THEN [ok |-> TRUE, val |-> Len(b) - 4]
    ELSE [ok |-> FALSE, val |-> 0]

\* ---------------------------------------------------------- storage ----
(***************************************************************************)
(* struct Storage: [header, kind, mm].  kind is "Single" (AnchorMemory::   *)
(* Single: header memory = pages 0..2, anchor memory = pages 2..MAX),      *)
(* "Managed" (header memory = page 0, anchor memory = virtual memory 0 of  *)
(* the memory manager mm) or "None" when the process holds no storage (it  *)
(* aborted inside an operation that had already written).                  *)
(***************************************************************************)
NoStorage ==
    [header |-> MkHeader(0, 0, 0, 0, 0, EMPTY_SALT, 0), kind |-> "None", mm |-> NoMM]

HeaderMemory(st) == IF st.kind = "Single" THEN Restricted(0, 2) ELSE Restricted(0, 1)

AnchorSingle == Restricted(2, MAX_WASM_PAGES)

\* AnchorMemory::size
AnchorSize(st, m) == IF st.kind = "Single" THEN RSize(AnchorSingle, m) ELSE st.mm.size0

\* Writer::write over a restricted memory, of data followed by pad zero bytes:
\* grow as needed, then write; [ok, mem]
RestrictedWrite(v, m, off, data, pad) ==
    LET end == WAdd(off, Len(data) + pad)
        size == RSize(v, m)
        g == IF WLess(<<size, 0>>, end)
             THEN RGrow(v, m, CeilDiv(WDist(end, <<size, 0>>), WASM_PAGE_SIZE))
             ELSE [ok |-> TRUE, mem |-> m]
    IN IF g.ok THEN [ok |-> TRUE, mem |-> MemWritePadded(g.mem, RAddr(v, off), data, pad)]
       ELSE [ok |-> FALSE, mem |-> m]

\* VirtualMemory::write of in-bounds data, bucket by bucket
RECURSIVE VmWrite(_, _, _, _)
VmWrite(m, mm, off, data) ==
    IF Len(data) = 0 THEN m
    ELSE LET k == InBucket(off, Len(data))
         IN VmWrite(MemWrite(m, VmAddr(mm, off), SubSeq(data, 1, k)), mm,
                    WAdd(off, k), SubSeq(data, k + 1, Len(data)))

\* the pages a write of [off, off + len) needs beyond the current size
PagesShort(size, off, len) ==
    LET end == WAdd(off, len)
    IN IF WLess(<<size, 0>>, end)
       THEN end[1] - size + (IF end[2] > 0 THEN 1 ELSE 0)
       ELSE 0

\* the buffered writer whose managed arm grows and writes the stable memory
\* and leaves the store's memory manager as it was before the growth
AnchorWriteUnrecordedGrowth(st, m, off, data) ==
    IF st.kind = "Single"
    THEN LET short == PagesShort(RSize(AnchorSingle, m), off, Len(data))
             g == IF short > 0 THEN RGrow(AnchorSingle, m, short)
                  ELSE [ok |-> TRUE, mem |-> m]
         IN IF g.ok
            THEN [ok |-> TRUE, mem |-> MemWrite(g.mem, RAddr(AnchorSingle, off), data),
                  mm |-> st.mm]
            ELSE [ok |-> FALSE, mem |-> m, mm |-> st.mm]
    ELSE LET short == PagesShort(st.mm.size0, off, Len(data))
             g == IF short > 0 THEN VmGrow(m, st.mm, short)
                  ELSE [ok |-> TRUE, mem |-> m, mm |-> st.mm]
         IN IF g.ok
            THEN [ok |-> TRUE, mem |-> VmWrite(g.mem, g.mm, off, data), mm |-> st.mm]
            ELSE [ok |-> FALSE, mem |-> m, mm |-> st.mm]

\* the anchor memory's buffered writer: write_all ... flush (or drop), as the
\* one write of all the bytes it amounts to; [ok, mem, mm]
AnchorWrite(st, m, off, data) ==
    IF st.kind = "Single"
    THEN LET short == PagesShort(RSize(AnchorSingle, m), off, Len(data))
             g == IF short > 0 THEN RGrow(AnchorSingle, m, short)
                  ELSE [ok |-> TRUE, mem |-> m]
         IN IF g.ok
            THEN [ok |-> TRUE, mem |-> MemWrite(g.mem, RAddr(AnchorSingle, off), data),
                  mm |-> st.mm]
            ELSE [ok |-> FALSE, mem |-> m, mm |-> st.mm]
    ELSE LET short == PagesShort(st.mm.size0, off, Len(data))
             g == IF short > 0 THEN VmGrow(m, st.mm, short)
                  ELSE [ok |-> TRUE, mem |-> m, mm |-> st.mm]
         IN IF g.ok
            THEN [ok |-> TRUE, mem |-> VmWrite(g.mem, g.mm, off, data), mm |-> g.mm]
            ELSE [ok |-> FALSE, mem |-> m, mm |-> st.mm]

\* the backing address of byte off of the anchor memory
AnchorAddr(st, off) ==
    IF st.kind = "Single" THEN RAddr(AnchorSingle, off) ELSE VmAddr(st.mm, off)

\* the anchor memory's buffered reader: read_exact of len bytes at off fails
\* unless they all lie below the memory's size; [ok, data]
AnchorReadExact(st, m, off, len) ==
    IF WLeq(WAdd(off, len), <<AnchorSize(st, m), 0>>) /\ len >= 0
    THEN [ok |-> TRUE, data |-> [i \in 1..len |-> MemByte(m, AnchorAddr(st, WAdd(off, i - 1)))]]
    ELSE [ok |-> FALSE, data |-> <<>>]

\* An operation's outcome: the storage and memory it leaves, its result
\* ("Trap" for an abort) and the value it returned, if any.
Outcome(st, m, res, val) == [st |-> st, mem |-> m, res |-> res, val |-> val]

\* Storage::flush: the whole header, unbuffered, at offset 0 of the header memory
Flush(st, m) == RestrictedWrite(HeaderMemory(st), m, U64(0), HeaderBytes(st.header), 0)

\* flush, then return: the write cannot fail within the first page
Flushed(st, m, res, val) ==
    LET w == Flush(st, m)
    IN IF w.ok THEN Outcome(st, w.mem, res, val) ELSE Outcome(NoStorage, m, "Trap", 0)

\* Storage::new((id_range_lo, id_range_hi), memory) on an empty memory
New(lo, hi, kind) ==
    IF hi < lo \/ hi - lo > DEFAULT_RANGE_SIZE THEN Outcome(NoStorage, EmptyMemory, "Trap", 0)
    ELSE LET header == MkHeader(IF kind = "Single" THEN 6 ELSE 7, 0, lo, hi,
                                DEFAULT_ENTRY_SIZE, EMPTY_SALT, ENTRY_OFFSET)
             mgr == IF kind = "Single" THEN [mem |-> EmptyMemory, mm |-> NoMM]
                    ELSE MMInit(EmptyMemory)
         IN Flushed([header |-> header, kind |-> kind, mm |-> mgr.mm], mgr.mem, "Ok", 0)

\* Storage::salt: is the salt set
SaltIsSet(st) == st.header.salt # EMPTY_SALT

\* Storage::salt: [res, val], None while the header's salt is EMPTY_SALT
SaltOp(st) ==
    IF st.header.salt = EMPTY_SALT THEN [res |-> "None", val |-> EMPTY_SALT]
    ELSE [res |-> "Some", val |-> st.header.salt]

\* update_salt without the check that no salt is set
UpdateSaltOverwrites(st, m, salt) ==
    Flushed([st EXCEPT !.header.salt = salt], m, "Ok", 0)

\* update_salt that leaves the header unflushed
UpdateSaltUnflushed(st, m, salt) ==
    IF SaltIsSet(st) THEN Outcome(st, m, "Trap", 0)
    ELSE Outcome([st EXCEPT !.header.salt = salt], m, "Ok", 0)

\* Storage::update_salt
UpdateSaltOp(st, m, salt) ==
    IF SaltIsSet(st) THEN Outcome(st, m, "Trap", 0)
    ELSE Flushed([st EXCEPT !.header.salt = salt], m, "Ok", 0)

\* from_memory that takes the version after the last supported one
FromMemoryAcceptsNewer(m) ==
    IF m.pages < 1 THEN Outcome(NoStorage, m, "None", 0)
    ELSE LET header == HeaderFromBytes(MemRead(m, U64(0), HEADER_SIZE))
         IN IF header.magic # STORAGE_MAGIC
            THEN Outcome(NoStorage, m, "Trap", "invalid magic")
            ELSE IF header.version < MIN_SUPPORTED_VERSION
            THEN Outcome(NoStorage, m, "Trap", "no longer supported")
            ELSE IF header.version > MAX_SUPPORTED_VERSION + 1
            THEN Outcome(NoStorage, m, "Trap", "unsupported header version")
            ELSE IF header.version = 6
            THEN Outcome([header |-> header, kind |-> "Single", mm |-> NoMM], m, "Some", 0)
            ELSE LET mgr == MMInit(m)
                 IN Outcome([header |-> header, kind |-> "Managed", mm |-> mgr.mm],
                            mgr.mem, "Some", 0)

\* Storage::from_memory
FromMemory(m) ==
    IF m.pages < 1 THEN Outcome(NoStorage, m, "None", 0)
    ELSE LET header == HeaderFromBytes(MemRead(m, U64(0), HEADER_SIZE))
         IN IF header.magic # STORAGE_MAGIC
            THEN Outcome(NoStorage, m, "Trap", "invalid magic")
            ELSE IF header.version < MIN_SUPPORTED_VERSION
            THEN Outcome(NoStorage, m, "Trap", "no longer supported")
            ELSE IF header.version > MAX_SUPPORTED_VERSION
            THEN Outcome(NoStorage, m, "Trap", "unsupported header version")
            ELSE IF header.version = 6
            THEN Outcome([header |-> header, kind |-> "Single", mm |-> NoMM], m, "Some", 0)
            ELSE LET mgr == MMInit(m)
                 IN Outcome([header |-> header, kind |-> "Managed", mm |-> mgr.mm],
                            mgr.mem, "Some", 0)

\* allocate_anchor returning the number after the one it allocated
AllocateAnchorOffByOne(st, m) ==
    LET anchor_number == st.header.id_range_lo + st.header.num_anchors
    IN IF anchor_number >= st.header.id_range_hi THEN Outcome(st, m, "None", 0)
       ELSE Flushed([st EXCEPT !.header.num_anchors = @ + 1], m, "Some", anchor_number + 1)

\* allocate_anchor comparing with > where the code has >=
AllocateAnchorPastEnd(st, m) ==
    LET anchor_number == st.header.id_range_lo + st.header.num_anchors
    IN IF anchor_number > st.header.id_range_hi THEN Outcome(st, m, "None", 0)
       ELSE Flushed([st EXCEPT !.header.num_anchors = @ + 1], m, "Some", anchor_number)

\* allocate_anchor that writes an empty record into the slot it allocates
AllocateAnchorClearsSlot(st, m) ==
    LET anchor_number == st.header.id_range_lo + st.header.num_anchors
        w == AnchorWrite(st, m, WProd(st.header.num_anchors, st.header.entry_size),
                         <<0, 0>>)
    IN IF anchor_number >= st.header.id_range_hi THEN Outcome(st, m, "None", 0)
       ELSE Flushed([st EXCEPT !.header.num_anchors = @ + 1, !.mm = w.mm], w.mem,
                    "Some", anchor_number)

\* Storage::allocate_anchor
AllocateAnchorOp(st, m) ==
    LET anchor_number == st.header.id_range_lo + st.header.num_anchors
    IN IF anchor_number >= st.header.id_range_hi THEN Outcome(st, m, "None", 0)
       ELSE Flushed([st EXCEPT !.header.num_anchors = @ + 1], m, "Some", anchor_number)

\* anchor_number_to_record that checks the allocation before the range
AnchorNumberToRecordAllocationFirst(st, anchor_number) ==
    IF anchor_number - st.header.id_range_lo >= st.header.num_anchors
    THEN [res |-> "BadAnchorNumber", record |-> 0]
    ELSE IF anchor_number < st.header.id_range_lo \/ anchor_number >= st.header.id_range_hi
    THEN [res |-> "AnchorNumberOutOfRange", record |-> 0]
    ELSE [res |-> "Ok", record |-> anchor_number - st.header.id_range_lo]

\* Storage::anchor_number_to_record: [res, record]
AnchorNumberToRecord(st, anchor_number) ==
    IF anchor_number < st.header.id_range_lo \/ anchor_number >= st.header.id_range_hi
    THEN [res |-> "AnchorNumberOutOfRange", record |-> 0]
    ELSE IF anchor_number - st.header.id_range_lo >= st.header.num_anchors
    THEN [res |-> "BadAnchorNumber", record |-> 0]
    ELSE [res |-> "Ok", record |-> anchor_number - st.header.id_range_lo]

\* Storage::record_address
RecordAddress(st, record_number) == WProd(record_number, st.header.entry_size)

\* candid_entry_size_limit that forgets the length prefix
CandidEntrySizeLimitWholeSlot(st) == st.header.entry_size

\* Storage::candid_entry_size_limit
CandidEntrySizeLimit(st) == st.header.entry_size - 2

\* unused_memory_start as the end of the slots of the whole range
UnusedMemoryStartEndOfRange(st) ==
    RecordAddress(st, st.header.id_range_hi - st.header.id_range_lo)

\* Storage::unused_memory_start
UnusedMemoryStart(st) == RecordAddress(st, st.header.num_anchors)

\* Storage::max_entries
MaxEntries(st) == EntriesThatFit(st.header.first_entry_offset, st.header.entry_size)

\* write_entry_bytes that writes the whole slot, the tail zeroed
WriteEntryBytesWholeSlot(st, m, record_number, buf) ==
    IF Len(buf) > CandidEntrySizeLimit(st)
    THEN Outcome(st, m, "EntrySizeLimitExceeded", Len(buf))
    ELSE LET w == AnchorWrite(st, m, RecordAddress(st, record_number),
                              LE(Len(buf), 2) \o buf
                                  \o Zeros(st.header.entry_size - 2 - Len(buf)))
         IN IF w.ok THEN Outcome([st EXCEPT !.mm = w.mm], w.mem, "Ok", 0)
            ELSE Outcome(NoStorage, m, "Trap", 0)

\* Storage::write_entry_bytes
WriteEntryBytes(st, m, record_number, buf) ==
    IF Len(buf) > CandidEntrySizeLimit(st)
    THEN Outcome(st, m, "EntrySizeLimitExceeded", Len(buf))
    ELSE LET w == AnchorWrite(st, m, RecordAddress(st, record_number),
                              LE(Len(buf), 2) \o buf)
         IN IF w.ok THEN Outcome([st EXCEPT !.mm = w.mm], w.mem, "Ok", 0)
            ELSE Outcome(NoStorage, m, "Trap", 0)

\* Storage::write
WriteOp(st, m, anchor_number, data) ==
    LET r == AnchorNumberToRecord(st, anchor_number)
    IN IF r.res # "Ok" THEN Outcome(st, m, r.res, anchor_number)
       ELSE WriteEntryBytes(st, m, r.record, Encode(data))

\* read_entry_bytes that takes the length from one byte
ReadEntryBytesShortLength(st, m, record_number) ==
    LET address == RecordAddress(st, record_number)
        len_buf == AnchorReadExact(st, m, address, 2)
        len == FromLE(SubSeq(len_buf.data, 1, 1))
    IN IF ~len_buf.ok THEN [ok |-> FALSE, data |-> <<>>]
       ELSE IF len > CandidEntrySizeLimit(st) THEN [ok |-> FALSE, data |-> <<>>]
       ELSE AnchorReadExact(st, m, WAdd(address, 2), len)

\* Storage::read_entry_bytes: [ok, data]; not ok is an abort
ReadEntryBytes(st, m, record_number) ==
    LET address == RecordAddress(st, record_number)
        len_buf == AnchorReadExact(st, m, address, 2)
        len == FromLE(len_buf.data)
    IN IF ~len_buf.ok THEN [ok |-> FALSE, data |-> <<>>]
       ELSE IF len > CandidEntrySizeLimit(st) THEN [ok |-> FALSE, data |-> <<>>]
       ELSE AnchorReadExact(st, m, WAdd(address, 2), len)

\* Storage::read: [res, val]
ReadOp(st, m, anchor_number) ==
    LET r == AnchorNumberToRecord(st, anchor_number)
        e == ReadEntryBytes(st, m, r.record)
        d == Decode(e.data)
    IN IF r.res # "Ok" THEN [res |-> r.res, val |-> anchor_number]
       ELSE IF ~e.ok THEN [res |-> "Trap", val |-> 0]
       ELSE IF d.ok THEN [res |-> "Ok", val |-> d.val]
       ELSE [res |-> "DeserializationError", val |-> 0]

\* set_anchor_number_range without the check that the allocated anchors fit
SetAnchorNumberRangeDropsAnchors(st, m, lo, hi) ==
    IF hi < lo THEN Outcome(st, m, "Trap", 0)
    ELSE IF hi - lo > MaxEntries(st) THEN Outcome(st, m, "Trap", 0)
    ELSE IF st.header.num_anchors > 0 /\ st.header.id_range_lo # lo
    THEN Outcome(st, m, "Trap", 0)
    ELSE Flushed([st EXCEPT !.header.id_range_lo = lo, !.header.id_range_hi = hi],
                 m, "Ok", 0)

\* set_anchor_number_range without the check that the range starts where it did
SetAnchorNumberRangeShifts(st, m, lo, hi) ==
    IF hi < lo THEN Outcome(st, m, "Trap", 0)
    ELSE IF hi - lo > MaxEntries(st) THEN Outcome(st, m, "Trap", 0)
    ELSE IF st.header.num_anchors > 0 /\ hi - lo < st.header.num_anchors
    THEN Outcome(st, m, "Trap", 0)
    ELSE Flushed([st EXCEPT !.header.id_range_lo = lo, !.header.id_range_hi = hi],
                 m, "Ok", 0)

\* set_anchor_number_range without the check that lo <= hi
SetAnchorNumberRangeUnordered(st, m, lo, hi) ==
    IF hi - lo > MaxEntries(st) THEN Outcome(st, m, "Trap", 0)
    ELSE IF st.header.num_anchors > 0 /\ st.header.id_range_lo # lo
    THEN Outcome(st, m, "Trap", 0)
    ELSE IF st.header.num_anchors > 0 /\ hi - lo < st.header.num_anchors
    THEN Outcome(st, m, "Trap", 0)
    ELSE Flushed([st EXCEPT !.header.id_range_lo = lo, !.header.id_range_hi = hi],
                 m, "Ok", 0)

\* set_anchor_number_range without the check against max_entries
SetAnchorNumberRangeUnbounded(st, m, lo, hi) ==
    IF hi < lo THEN Outcome(st, m, "Trap", 0)
    ELSE IF st.header.num_anchors > 0 /\ st.header.id_range_lo # lo
    THEN Outcome(st, m, "Trap", 0)
    ELSE IF st.header.num_anchors > 0 /\ hi - lo < st.header.num_anchors
    THEN Outcome(st, m, "Trap", 0)
    ELSE Flushed([st EXCEPT !.header.id_range_lo = lo, !.header.id_range_hi = hi],
                 m, "Ok", 0)

\* Storage::set_anchor_number_range
SetAnchorNumberRangeOp(st, m, lo, hi) ==
    IF hi < lo THEN Outcome(st, m, "Trap", 0)
    ELSE IF hi - lo > MaxEntries(st) THEN Outcome(st, m, "Trap", 0)
    ELSE IF st.header.num_anchors > 0 /\ st.header.id_range_lo # lo
    THEN Outcome(st, m, "Trap", 0)
    ELSE IF st.header.num_anchors > 0 /\ hi - lo < st.header.num_anchors
    THEN Outcome(st, m, "Trap", 0)
    ELSE Flushed([st EXCEPT !.header.id_range_lo = lo, !.header.id_range_hi = hi],
                 m, "Ok", 0)

\* candid::encode_one(state) of a PersistentState p >= 1, opaque as Encode
EncodeState(p) == DIDL \o <<p, p>>

\* write_persistent_state with a length of 4 bytes
WritePersistentStateShortLength(st, m, p) ==
    LET encoded_state == EncodeState(p)
        w == AnchorWrite(st, m, UnusedMemoryStart(st),
                         PERSISTENT_STATE_MAGIC \o LE(Len(encoded_state), 4)
                             \o encoded_state)
    IN IF w.ok THEN Outcome([st EXCEPT !.mm = w.mm], w.mem, "Ok", 0)
       ELSE Outcome(NoStorage, m, "Trap", 0)

\* Storage::write_persistent_state
WritePersistentStateOp(st, m, p) ==
    LET encoded_state == EncodeState(p)
        w == AnchorWrite(st, m, UnusedMemoryStart(st),
                         PERSISTENT_STATE_MAGIC \o LE(Len(encoded_state), 8)
                             \o encoded_state)
    IN IF w.ok THEN Outcome([st EXCEPT !.mm = w.mm], w.mem, "Ok", 0)
       ELSE Outcome(NoStorage, m, "Trap", 0)

\* read_persistent_state that reports a magic it cannot read as a read error
ReadPersistentStateStrict(st, m) ==
    LET address == UnusedMemoryStart(st)
        magic_buf == AnchorReadExact(st, m, address, 4)
        size_buf == AnchorReadExact(st, m, WAdd(address, 4), 8)
        size == FromLE(size_buf.data)
        data_buf == AnchorReadExact(st, m, WAdd(address, 12), size)
    IN IF WLess(<<AnchorSize(st, m), 0>>, address) THEN [res |-> "NotFound", val |-> 0]
       ELSE IF ~magic_buf.ok THEN [res |-> "ReadError", val |-> 0]
       ELSE IF magic_buf.data # PERSISTENT_STATE_MAGIC THEN [res |-> "NotFound", val |-> 0]
       ELSE IF ~size_buf.ok THEN [res |-> "ReadError", val |-> 0]
       ELSE IF ~data_buf.ok THEN [res |-> "ReadError", val |-> 0]
       ELSE IF Len(data_buf.data) = 6 /\ data_buf.data = EncodeState(data_buf.data[5])
                  /\ data_buf.data[5] >= 1
       THEN [res |-> "Ok", val |-> data_buf.data[5]]
       ELSE [res |-> "CandidError", val |-> 0]

\* Storage::read_persistent_state: [res, val]
ReadPersistentStateOp(st, m) ==
    LET address == UnusedMemoryStart(st)
        magic_buf == AnchorReadExact(st, m, address, 4)
        size_buf == AnchorReadExact(st, m, WAdd(address, 4), 8)
        size == FromLE(size_buf.data)
        data_buf == AnchorReadExact(st, m, WAdd(address, 12), size)
    IN IF WLess(<<AnchorSize(st, m), 0>>, address) THEN [res |-> "NotFound", val |-> 0]
       ELSE IF ~magic_buf.ok THEN [res |-> "NotFound", val |-> 0]
       ELSE IF magic_buf.data # PERSISTENT_STATE_MAGIC THEN [res |-> "NotFound", val |-> 0]
       ELSE IF ~size_buf.ok THEN [res |-> "ReadError", val |-> 0]
       ELSE IF ~data_buf.ok THEN [res |-> "ReadError", val |-> 0]
       ELSE IF Len(data_buf.data) = 6 /\ data_buf.data = EncodeState(data_buf.data[5])
                  /\ data_buf.data[5] >= 1
       THEN [res |-> "Ok", val |-> data_buf.data[5]]
       ELSE [res |-> "CandidError", val |-> 0]

\* ------------------------------------------------------- migration ----
(***************************************************************************)
(* Storage::from_memory_v6_to_v7, as the memory after each of its writes.  *)
(* checked tells whether the build traps on integer overflow (a debug      *)
(* build, or overflow-checks = true) or wraps (a release build): the u16   *)
(* product BUCKET_SIZE_IN_PAGES * num_allocated_buckets overflows from 512 *)
(* buckets on.                                                             *)
(***************************************************************************)
\* lines 440-453: the storage header with version 7, through header memory 0..1
MigrateHeader(m, st6) ==
    RestrictedWrite(Restricted(0, 1), m, U64(0),
                    HeaderBytes([st6.header EXCEPT !.version = 7]), 0).mem

\* lines 456-458: ((size + 128 - 1) / 128) as u16
NumAllocatedBuckets(size) == CeilDiv(size, BUCKET_SIZE_IN_PAGES) % U16_MODULUS

\* line 470: does the u16 product overflow
ProductOverflows(size) == BUCKET_SIZE_IN_PAGES * NumAllocatedBuckets(size) >= U16_MODULUS

\* line 470: (BUCKET_SIZE_IN_PAGES * num_allocated_buckets) as u64, wrapping
PagesInAllocatedBuckets(size) ==
    (BUCKET_SIZE_IN_PAGES * NumAllocatedBuckets(size)) % U16_MODULUS

\* line 471: memory.grow(pages_in_allocated_buckets - size), its result dropped
MigrateGrow(m, size) == MemGrow(m, PagesInAllocatedBuckets(size) - size).mem

\* the memory manager's header written through memory 2..3, the first page of
\* the v6 anchor memory
MigrateMMHeaderOnAnchors(m, size) ==
    RestrictedWrite(Restricted(2, 3), m, U64(0),
                    MMHeaderHead(NumAllocatedBuckets(size), size), MM_HEADER_TAIL).mem

\* lines 459-482: the memory manager's header through memory 1..2
MigrateMMHeader(m, size) ==
    RestrictedWrite(Restricted(1, 2), m, U64(0),
                    MMHeaderHead(NumAllocatedBuckets(size), size), MM_HEADER_TAIL).mem

\* lines 505-513: the bucket table in one write, the first
\* num_allocated_buckets entries 0, the others the unallocated marker
MigrateBuckets(m, size) ==
    LET n == NumAllocatedBuckets(size)
    IN MemWriteRun(MemWriteRun(m, TableAddr(0), n, ANCHOR_MEMORY_INDEX),
                   TableAddr(n), MAX_NUM_BUCKETS - n, UNALLOCATED_BUCKET_MARKER)

\* the memory after 1, 2, 3 and 4 of the migration's writes
MigrationWrites(m, st6) ==
    LET size == AnchorSize(st6, m)
        m1 == MigrateHeader(m, st6)
        m2 == MigrateGrow(m1, size)
        m3 == MigrateMMHeader(m2, size)
        m4 == MigrateBuckets(m3, size)
    IN <<m1, m2, m3, m4>>

\* Storage::from_memory_v6_to_v7
FromMemoryV6ToV7(m, checked) ==
    LET v6 == FromMemory(m)
    IN IF v6.res # "Some" THEN v6
       ELSE IF v6.st.header.version = 7 THEN v6
       ELSE IF v6.st.header.version # 6 THEN Outcome(NoStorage, m, "Trap", 0)
       ELSE IF checked /\ ProductOverflows(AnchorSize(v6.st, m))
       THEN Outcome(NoStorage, MigrateHeader(m, v6.st), "Trap", 0)
       ELSE FromMemory(MigrationWrites(m, v6.st)[4])

\* ------------------------------------------------------------ model ----
\* Bounds of the model.
IdLo == 10
SmallRange == 2
OverflowEdge == 1046528
MaxAnchorValue == 2
MaxStateValue == 1
NumSalts == 1

\* the anchors allocated before the first state: none, or all the slots of the
\* first 65 408 pages of the anchor memory (511 buckets)
InitAllocated == {0, OverflowEdge}

\* the most anchors the model allocates: one past OverflowEdge, whose slot lies
\* past the page and bucket edge
MaxAllocated == OverflowEdge + 1

\* a range wider than that
LargeRange == MaxAllocated + 1

Salt(k) == [i \in 1..32 |-> IF i = 1 THEN k ELSE 0]

VARIABLES storage, memory

vars == <<storage, memory>>

\* new((lo, hi), memory) on an empty memory, then k times allocate_anchor,
\* which increments num_anchors and flushes the header and does nothing else
Born(lo, hi, kind, k) ==
    LET o == New(lo, hi, kind)
    IN Flushed([o.st EXCEPT !.header.num_anchors = k], o.mem, "Ok", 0)

\* the id range of a storage born with k anchors: the small one, which the
\* model exhausts, when it is born empty
InitRange(k) == IF k = 0 THEN SmallRange ELSE LargeRange

Init ==
    \E kind \in {"Single", "Managed"}, k \in InitAllocated :
        LET o == Born(IdLo, IdLo + InitRange(k), kind, k)
        IN /\ storage = o.st
           /\ memory = o.mem

Alive == storage.kind # "None"

Apply(o) ==
    /\ storage' = o.st
    /\ memory' = o.mem

AllocateAnchor ==
    /\ Alive
    /\ storage.header.num_anchors < MaxAllocated
    /\ Apply(AllocateAnchorOp(storage, memory))

\* the anchor numbers the model writes: the last one allocated, the first not
\* allocated, the one below the range and the one past it
AnchorInputs ==
    LET next == storage.header.id_range_lo + storage.header.num_anchors
    IN {n \in {next - 1, next} : n >= storage.header.id_range_lo}
           \cup {storage.header.id_range_lo - 1, storage.header.id_range_hi}

Write ==
    /\ Alive
    /\ \E n \in AnchorInputs, a \in 1..MaxAnchorValue :
           Apply(WriteOp(storage, memory, n, a))

UpdateSalt ==
    /\ Alive
    /\ \E k \in 0..NumSalts : Apply(UpdateSaltOp(storage, memory, Salt(k)))

RangeInputs ==
    {<<lo, lo + d>> : lo \in {IdLo, IdLo + 1},
                      d \in {-1, storage.header.num_anchors - 1,
                             storage.header.num_anchors, SmallRange,
                             MaxEntries(storage) + 1}}

SetAnchorNumberRange ==
    /\ Alive
    /\ \E r \in RangeInputs :
           Apply(SetAnchorNumberRangeOp(storage, memory, r[1], r[2]))

WritePersistentState ==
    /\ Alive
    /\ \E p \in 1..MaxStateValue :
           Apply(WritePersistentStateOp(storage, memory, p))

\* the process restarts and recovers the storage from the stable memory
Restart == Apply(FromMemory(memory))

\* the process restarts into the migration
Migrate ==
    \E checked \in BOOLEAN :
        Apply(FromMemoryV6ToV7(memory, checked))

Next ==
    \/ AllocateAnchor
    \/ Write
    \/ UpdateSalt
    \/ SetAnchorNumberRange
    \/ WritePersistentState
    \/ Restart
    \/ Migrate

Spec == Init /\ [][Next]_vars

\* ------------------------------------------------- the two layouts ----
(***************************************************************************)
(* A second specification: a flat (v6, Single) and a managed (v7, Managed)  *)
(* store created by new with the same id range and driven by the same      *)
(* calls. Here storage and memory are records, by layout, of the two        *)
(* stores and of their two stable memories.                                 *)
(***************************************************************************)
Layouts == {"Single", "Managed"}

PairInit ==
    \E k \in InitAllocated :
        /\ storage = [kind \in Layouts |-> Born(IdLo, IdLo + InitRange(k), kind, k).st]
        /\ memory = [kind \in Layouts |-> Born(IdLo, IdLo + InitRange(k), kind, k).mem]

PairAlive == \A kind \in Layouts : storage[kind].kind # "None"

\* the outcomes of one call on the two stores become the next state
PairApply(o) ==
    /\ storage' = [kind \in Layouts |-> o[kind].st]
    /\ memory' = [kind \in Layouts |-> o[kind].mem]

PairAllocateAnchor ==
    /\ PairAlive
    /\ storage.Single.header.num_anchors < MaxAllocated
    /\ PairApply([kind \in Layouts |-> AllocateAnchorOp(storage[kind], memory[kind])])

\* the anchor numbers written: as AnchorInputs, of the flat store
PairAnchorInputs ==
    LET next == storage.Single.header.id_range_lo + storage.Single.header.num_anchors
    IN {n \in {next - 1, next} : n >= storage.Single.header.id_range_lo}
           \cup {storage.Single.header.id_range_lo - 1, storage.Single.header.id_range_hi}

PairWrite ==
    /\ PairAlive
    /\ \E n \in PairAnchorInputs, a \in 1..MaxAnchorValue :
           PairApply([kind \in Layouts |-> WriteOp(storage[kind], memory[kind], n, a)])

PairUpdateSalt ==
    /\ PairAlive
    /\ \E k \in 0..NumSalts :
           PairApply([kind \in Layouts |-> UpdateSaltOp(storage[kind], memory[kind], Salt(k))])

\* the ranges set: as RangeInputs, of the flat store
PairRangeInputs ==
    {<<lo, lo + d>> : lo \in {IdLo, IdLo + 1},
                      d \in {-1, storage.Single.header.num_anchors - 1,
                             storage.Single.header.num_anchors, SmallRange,
                             MaxEntries(storage.Single) + 1}}

PairSetAnchorNumberRange ==
    /\ PairAlive
    /\ \E r \in PairRangeInputs :
           PairApply([kind \in Layouts |->
                          SetAnchorNumberRangeOp(storage[kind], memory[kind], r[1], r[2])])

PairWritePersistentState ==
    /\ PairAlive
    /\ \E p \in 1..MaxStateValue :
           PairApply([kind \in Layouts |->
                          WritePersistentStateOp(storage[kind], memory[kind], p)])

PairNext ==
    \/ PairAllocateAnchor
    \/ PairWrite
    \/ PairUpdateSalt
    \/ PairSetAnchorNumberRange
    \/ PairWritePersistentState

PairSpec == PairInit /\ [][PairNext]_vars

\* ----------------------------------------------------------- claims ----
\* the storage header as the 66 bytes at offset 0 of the stable memory hold it
DurableHeader(m) == HeaderFromBytes(MemRead(m, U64(0), HEADER_SIZE))

\* the first and the last allocated anchor number of a storage
SampleAllocated(st) ==
    IF st.header.num_anchors = 0 THEN {}
    ELSE {st.header.id_range_lo, st.header.id_range_lo + st.header.num_anchors - 1}

\* the backing addresses whose byte differs between two memories
Changed(m1, m2) ==
    {x \in (DOMAIN m1.bytes) \cup (DOMAIN m2.bytes) : MemByte(m1, x) # MemByte(m2, x)}

\* C1: in every reachable state the header satisfies
\* num_anchors <= id_range_hi - id_range_lo.
C1_NumAnchorsWithinRange ==
    Alive => storage.header.num_anchors
                 <= storage.header.id_range_hi - storage.header.id_range_lo

\* a store with an anchor whose range was narrowed to exactly the allocated ones
C1_Witness ==
    /\ Alive
    /\ storage.header.num_anchors = 1
    /\ storage.header.id_range_hi - storage.header.id_range_lo = 1
    /\ DurableHeader(memory) = storage.header

\* C7: whenever allocate_anchor returns Some(n), n is id_range_lo plus the
\* num_anchors before the call, num_anchors afterwards is one larger and every
\* other header field is as before.
C7_AllocateReturnsNext ==
    Alive =>
        LET o == AllocateAnchorOp(storage, memory)
        IN o.res = "Some" =>
               /\ o.val = storage.header.id_range_lo + storage.header.num_anchors
               /\ o.st.header.num_anchors = storage.header.num_anchors + 1
               /\ o.st.header = [storage.header EXCEPT !.num_anchors = @ + 1]
               /\ DurableHeader(o.mem) = o.st.header

\* the second anchor of a store is handed out
C7_Witness ==
    /\ Alive
    /\ storage.header.num_anchors = 1
    /\ AllocateAnchorOp(storage, memory).res = "Some"
    /\ AllocateAnchorOp(storage, memory).val = storage.header.id_range_lo + 1
    /\ AllocateAnchorOp(storage, memory).st.header.num_anchors = 2

\* C8: allocate_anchor returns Some exactly when
\* num_anchors < id_range_hi - id_range_lo; on an exhausted range it returns
\* None and leaves the header and the whole backing memory as they were.
C8_ExhaustedReturnsNone ==
    Alive =>
        LET o == AllocateAnchorOp(storage, memory)
            room == storage.header.id_range_hi - storage.header.id_range_lo
        IN /\ o.res \in {"Some", "None"}
           /\ (o.res = "Some") <=> (storage.header.num_anchors < room)
           /\ storage.header.num_anchors = room =>
                  /\ o.res = "None"
                  /\ o.st = storage
                  /\ o.mem = memory

\* every number of the small range is allocated and the next call finds none
C8_Witness ==
    /\ Alive
    /\ storage.header.num_anchors = SmallRange
    /\ storage.header.id_range_hi - storage.header.id_range_lo = SmallRange
    /\ AllocateAnchorOp(storage, memory).res = "None"

\* the ranges the claim tries: from id_range_lo and from the number after it, of
\* widths around 0, num_anchors and max_entries()
C10Inputs ==
    {<<lo, lo + d>> : lo \in {storage.header.id_range_lo, storage.header.id_range_lo + 1},
                      d \in {-1, 0, storage.header.num_anchors - 1,
                             storage.header.num_anchors, storage.header.num_anchors + 1,
                             MaxEntries(storage), MaxEntries(storage) + 1}}

\* C10: set_anchor_number_range((lo', hi')) succeeds, setting and flushing the
\* range, exactly when lo' <= hi', hi' - lo' <= max_entries() and, with anchors
\* allocated, lo' = id_range_lo and hi' - lo' >= num_anchors; otherwise it
\* aborts and leaves the header and the stable memory as they were.
C10_RangeAcceptedIff ==
    Alive =>
        \A r \in C10Inputs :
            LET o == SetAnchorNumberRangeOp(storage, memory, r[1], r[2])
                accepted == /\ r[1] <= r[2]
                            /\ r[2] - r[1] <= MaxEntries(storage)
                            /\ storage.header.num_anchors > 0 =>
                                   /\ r[1] = storage.header.id_range_lo
                                   /\ r[2] - r[1] >= storage.header.num_anchors
            IN IF accepted
               THEN /\ o.res = "Ok"
                    /\ o.st.header = [storage.header EXCEPT !.id_range_lo = r[1],
                                                            !.id_range_hi = r[2]]
                    /\ DurableHeader(o.mem) = o.st.header
               ELSE /\ o.res = "Trap"
                    /\ o.st = storage
                    /\ o.mem = memory

\* a store with anchors took a new upper end and refuses every other start
C10_Witness ==
    /\ Alive
    /\ storage.header.num_anchors > 0
    /\ storage.header.id_range_hi = storage.header.id_range_lo + storage.header.num_anchors
    /\ storage.header.id_range_hi # IdLo + InitRange(0)
    /\ storage.header.id_range_hi # IdLo + InitRange(OverflowEdge)
    /\ SetAnchorNumberRangeOp(storage, memory, storage.header.id_range_lo + 1,
                              storage.header.id_range_hi + 1).res = "Trap"
    /\ SetAnchorNumberRangeOp(storage, memory, storage.header.id_range_lo,
                              storage.header.id_range_hi + 1).res = "Ok"

\* C4: at every operation boundary from_memory on the backing memory yields a
\* store whose header is the in-memory header and whose read(n) is the
\* store's read(n) for the allocated anchors n.
C4_ReloadIsIdentity ==
    Alive =>
        LET r == FromMemory(memory)
        IN /\ r.res = "Some"
           /\ r.st.header = storage.header
           /\ DurableHeader(memory) = storage.header
           /\ \A n \in SampleAllocated(storage) :
                  ReadOp(r.st, r.mem, n) = ReadOp(storage, memory, n)

\* a store after allocate_anchor, write, update_salt and
\* set_anchor_number_range, whose written anchor reads back after the reload
C4_Witness ==
    /\ Alive
    /\ storage.header.num_anchors = 2
    /\ SaltIsSet(storage)
    /\ storage.header.id_range_lo = IdLo + 1
    /\ ReadOp(FromMemory(memory).st, FromMemory(memory).mem,
              storage.header.id_range_lo + 1).res = "Ok"

\* a step from header h1 to header h2 keeps the allocated anchors of h1 at
\* their records
C9_HeaderStep(h1, h2) ==
    /\ h2.num_anchors >= h1.num_anchors
    /\ h1.num_anchors > 0 =>
           /\ h2.id_range_lo = h1.id_range_lo
           /\ h2.entry_size = h1.entry_size
           /\ \A n \in SampleAllocated([header |-> h1]) :
                  /\ AnchorNumberToRecord([header |-> h1], n).res = "Ok"
                  /\ AnchorNumberToRecord([header |-> h2], n)
                         = AnchorNumberToRecord([header |-> h1], n)

\* C9: an allocated anchor stays allocated at the same slot: no step lowers
\* num_anchors, changes id_range_lo while anchors are allocated or changes
\* the slot size, in the header on stable memory and in the store's own, so
\* the first and the last allocated number keep their records.
C9_AllocatedStaysAllocated ==
    [][/\ C9_HeaderStep(DurableHeader(memory), DurableHeader(memory'))
       /\ (Alive /\ Alive') => C9_HeaderStep(storage.header, storage'.header)]_vars

\* a managed store that allocated and wrote an anchor past the first 1 046 528
\* and whose range was then narrowed to the allocated numbers
C9_Witness ==
    /\ Alive
    /\ storage.kind = "Managed"
    /\ storage.header.num_anchors = MaxAllocated
    /\ storage.header.id_range_hi = storage.header.id_range_lo + MaxAllocated
    /\ ReadOp(storage, memory, storage.header.id_range_lo + MaxAllocated - 1).res = "Ok"

\* the anchor values the claims write: the model's, and the one whose encoding
\* fills the slot to its last byte
ValueInputs(st) == (1..MaxAnchorValue) \cup {CandidEntrySizeLimit(st) - Len(DIDL)}

\* C5: for every allocated anchor number n and every anchor value a whose
\* encoding fits the slot, a successful write(n, a) followed by read(n)
\* returns Ok(a).
C5_WriteThenRead ==
    Alive =>
        \A n \in AnchorInputs, a \in ValueInputs(storage) :
            LET o == WriteOp(storage, memory, n, a)
            IN /\ (n \in SampleAllocated(storage)) => o.res = "Ok"
               /\ o.res = "Ok" => ReadOp(o.st, o.mem, n) = [res |-> "Ok", val |-> a]

\* the last allocated anchor holds the longer value and takes the shorter one
C5_Witness ==
    /\ Alive
    /\ storage.header.num_anchors > 0
    /\ LET n == storage.header.id_range_lo + storage.header.num_anchors - 1
       IN /\ ReadOp(storage, memory, n) = [res |-> "Ok", val |-> MaxAnchorValue]
          /\ WriteOp(storage, memory, n, 1).res = "Ok"
          /\ ReadOp(WriteOp(storage, memory, n, 1).st, WriteOp(storage, memory, n, 1).mem, n)
                 = [res |-> "Ok", val |-> 1]

\* C6: a successful write(n, a) with encoded length L changes only the bytes
\* [slot_address(n), slot_address(n) + 2 + L) of the anchor memory: every other
\* byte of the backing memory that changes is memory-manager metadata on page
\* 1 of a managed store; the backing addresses of the anchor memory's earlier
\* pages and the header stay as they were.
C6_WriteFrame ==
    Alive =>
        \A n \in AnchorInputs, a \in ValueInputs(storage) :
            LET o == WriteOp(storage, memory, n, a)
                slot == RecordAddress(storage, n - storage.header.id_range_lo)
                written == {AnchorAddr(o.st, WAdd(slot, i)) :
                                i \in 0..(2 + Len(Encode(a)) - 1)}
            IN o.res = "Ok" =>
                   /\ o.st.header = storage.header
                   /\ DurableHeader(o.mem) = DurableHeader(memory)
                   /\ o.st.kind = storage.kind
                   /\ SubSeq(o.st.mm.buckets0, 1, Len(storage.mm.buckets0))
                          = storage.mm.buckets0
                   /\ \A x \in Changed(memory, o.mem) :
                          \/ x \in written
                          \/ storage.kind = "Managed" /\ x[1] = MMBase.lo
                   /\ \A q \in (memory.runs \cup o.mem.runs) \ (memory.runs \cap o.mem.runs) :
                          storage.kind = "Managed" /\ q.lo[1] = MMBase.lo

\* the last allocated anchor holds the longer value and takes the shorter one,
\* whose write leaves the longer one's last byte behind it
C6_Witness ==
    /\ Alive
    /\ storage.header.num_anchors > 0
    /\ LET n == storage.header.id_range_lo + storage.header.num_anchors - 1
           o == WriteOp(storage, memory, n, 1)
           tail == AnchorAddr(storage, WAdd(RecordAddress(storage, storage.header.num_anchors - 1),
                                            2 + Len(Encode(MaxAnchorValue)) - 1))
       IN /\ ReadOp(storage, memory, n) = [res |-> "Ok", val |-> MaxAnchorValue]
          /\ o.res = "Ok"
          /\ MemByte(o.mem, tail) # 0
          /\ Changed(memory, o.mem) # {}

\* is the store on the backing memory a v6 store
IsV6 == Alive /\ storage.header.version = 6

\* do two stores read every allocated anchor of the first alike
SameReads(st1, m1, st2, m2) ==
    \A n \in SampleAllocated(st1) : ReadOp(st2, m2, n) = ReadOp(st1, m1, n)

\* C2: for every reachable v6 store S, from_memory_v6_to_v7 on S's backing
\* memory yields a store with version() = 7 whose header is S's in every other
\* field and whose read(n) is S.read(n) for every allocated anchor number n,
\* whichever way the build treats integer overflow.
C2_MigrationRefines ==
    IsV6 =>
        \A checked \in BOOLEAN :
            LET o == FromMemoryV6ToV7(memory, checked)
            IN /\ o.res = "Some"
               /\ o.st.header = [storage.header EXCEPT !.version = 7]
               /\ SameReads(storage, memory, o.st, o.mem)

\* C3: if the migration stops after any of its memory writes, from_memory on
\* the backing memory gives a v6 store or a v7 store that reads every allocated
\* anchor as the v6 store did: the header with version 7 is on stable memory
\* only once the memory manager's header and bucket table are.
C3_MigrationCrashSafe ==
    (IsV6 /\ ~ProductOverflows(AnchorSize(storage, memory))) =>
        \A i \in 1..4 :
            LET stopped == MigrationWrites(memory, storage)[i]
                o == FromMemory(stopped)
            IN /\ o.res = "Some"
               /\ o.st.header.version \in {6, 7}
               /\ o.st.header = [storage.header EXCEPT !.version = o.st.header.version]
               /\ SameReads(storage, memory, o.st, o.mem)

\* C11: for every 32-byte salt s, the first update_salt(s) on a store sets the
\* header salt so that salt() returns s, and any second call to update_salt
\* aborts and leaves the stored salt as it was.
C11_SaltSetOnce ==
    Alive =>
        \A k \in 0..NumSalts, j \in 0..NumSalts :
            LET o == UpdateSaltOp(storage, memory, Salt(k))
                again == UpdateSaltOp(o.st, o.mem, Salt(j))
            IN IF SaltOp(storage).res = "Some"
               THEN /\ o.res = "Trap"
                    /\ o.st = storage
                    /\ o.mem = memory
               ELSE /\ o.res = "Ok"
                    /\ SaltOp(o.st) = [res |-> "Some", val |-> Salt(k)]
                    /\ DurableHeader(o.mem).salt = Salt(k)
                    /\ again.res = "Trap"
                    /\ again.st = o.st
                    /\ again.mem = o.mem

\* C12: once the header salt is non-zero it has the same value after every
\* step, in the header on stable memory and in the store's own.
C12_SaltNeverOverwritten ==
    [][/\ DurableHeader(memory).salt # EMPTY_SALT =>
              DurableHeader(memory').salt = DurableHeader(memory).salt
       /\ (Alive /\ Alive' /\ SaltIsSet(storage)) =>
              storage'.header.salt = storage.header.salt]_vars

\* a store whose salt was set while it was flat and that was then migrated and
\* took an anchor
C12_Witness ==
    /\ Alive
    /\ storage.header.version = 7
    /\ storage.mm.allocated_buckets > 0
    /\ storage.header.num_anchors = SmallRange
    /\ SaltOp(storage) = [res |-> "Some", val |-> Salt(NumSalts)]
    /\ UpdateSaltOp(storage, memory, Salt(0)).res = "Trap"

\* C13: in every reachable state id_range_lo <= id_range_hi and
\* id_range_hi - id_range_lo <= max_entries(); new accepts a range only if
\* lo <= hi and hi - lo <= DEFAULT_RANGE_SIZE.
C13_RangeWellFormed ==
    /\ Alive =>
           /\ storage.header.id_range_lo <= storage.header.id_range_hi
           /\ storage.header.id_range_hi - storage.header.id_range_lo <= MaxEntries(storage)
    /\ \A kind \in {"Single", "Managed"}, lo \in {IdLo, IdLo + 1},
          d \in {-1, 0, SmallRange, DEFAULT_RANGE_SIZE, DEFAULT_RANGE_SIZE + 1} :
           LET o == New(lo, lo + d, kind)
           IN /\ (o.res = "Ok") <=> (0 <= d /\ d <= DEFAULT_RANGE_SIZE)
              /\ o.res = "Ok" =>
                     /\ o.st.header.id_range_lo = lo
                     /\ o.st.header.id_range_hi = lo + d
                     /\ d <= MaxEntries(o.st)

\* a store whose range was set to the empty range at the number after IdLo
C13_Witness ==
    /\ Alive
    /\ storage.header.id_range_lo = IdLo + 1
    /\ storage.header.id_range_hi = storage.header.id_range_lo
    /\ SaltIsSet(storage)
    /\ SetAnchorNumberRangeOp(storage, memory, IdLo, IdLo + MaxEntries(storage) + 1).res = "Trap"
    /\ SetAnchorNumberRangeOp(storage, memory, IdLo, IdLo + MaxEntries(storage)).res = "Ok"

\* the anchor numbers around the ends of the range and of the allocated part
EdgeNumbers(st) ==
    {n \in {st.header.id_range_lo + d : d \in {-1, 0, st.header.num_anchors - 1,
                st.header.num_anchors, st.header.num_anchors + 1}}
              \cup {st.header.id_range_hi + d : d \in {-1, 0, 1}} : n >= 0}

\* C14: read(n) and write(n, _) return AnchorNumberOutOfRange when
\* n < id_range_lo or n >= id_range_hi and BadAnchorNumber(n) when n is in
\* range but n - id_range_lo >= num_anchors, the range check first, and leave
\* the header and the stable memory as they were.
C14_NumberErrors ==
    Alive =>
        \A n \in EdgeNumbers(storage), a \in 1..MaxAnchorValue :
            LET r == ReadOp(storage, memory, n)
                w == WriteOp(storage, memory, n, a)
                expected == IF n < storage.header.id_range_lo \/ n >= storage.header.id_range_hi
                            THEN "AnchorNumberOutOfRange"
                            ELSE IF n - storage.header.id_range_lo >= storage.header.num_anchors
                            THEN "BadAnchorNumber"
                            ELSE "Ok"
            IN IF expected = "Ok"
               THEN /\ w.res = "Ok"
                    /\ r.res \notin {"AnchorNumberOutOfRange", "BadAnchorNumber"}
               ELSE /\ r = [res |-> expected, val |-> n]
                    /\ w.res = expected
                    /\ w.val = n
                    /\ w.st = storage
                    /\ w.mem = memory

\* a store with a written anchor and a number of its range not yet allocated
C14_Witness ==
    /\ Alive
    /\ storage.header.num_anchors = 1
    /\ storage.header.id_range_hi - storage.header.id_range_lo = SmallRange
    /\ ReadOp(storage, memory, storage.header.id_range_lo).res = "Ok"
    /\ ReadOp(storage, memory, storage.header.id_range_lo + 1).res = "BadAnchorNumber"
    /\ WriteOp(storage, memory, storage.header.id_range_lo + 1, 1).res = "BadAnchorNumber"
    /\ WriteOp(storage, memory, storage.header.id_range_hi, 1).res = "AnchorNumberOutOfRange"
    /\ ReadOp(storage, memory, storage.header.id_range_lo - 1).res = "AnchorNumberOutOfRange"

\* the anchor values at the slot's limit: the encodings of entry_size - 2 bytes,
\* of one more and of two more
LimitValues(st) ==
    {CandidEntrySizeLimit(st) - Len(DIDL) + d : d \in {0, 1, 2}}

\* C15: for an allocated anchor n, write(n, a) succeeds when the encoded
\* length is at most entry_size - 2 and returns EntrySizeLimitExceeded(len)
\* when it is larger, and then writes nothing to the slot or the header.
C15_EntrySizeLimit ==
    Alive =>
        \A n \in SampleAllocated(storage),
           a \in (1..MaxAnchorValue) \cup LimitValues(storage) :
            LET w == WriteOp(storage, memory, n, a)
                len == Len(Encode(a))
            IN IF len <= storage.header.entry_size - 2
               THEN /\ w.res = "Ok"
                    /\ FromLE(AnchorReadExact(w.st, w.mem,
                           RecordAddress(w.st, n - storage.header.id_range_lo), 2).data) = len
               ELSE /\ w.res = "EntrySizeLimitExceeded"
                    /\ w.val = len
                    /\ w.st = storage
                    /\ w.mem = memory

\* a store whose last anchor is written: the value of entry_size - 2 bytes is
\* taken and the one of entry_size - 1 bytes refused
C15_Witness ==
    /\ Alive
    /\ storage.header.num_anchors > 0
    /\ LET n == storage.header.id_range_lo + storage.header.num_anchors - 1
           fits == CandidEntrySizeLimit(storage) - Len(DIDL)
       IN /\ ReadOp(storage, memory, n).res = "Ok"
          /\ WriteOp(storage, memory, n, fits).res = "Ok"
          /\ WriteOp(storage, memory, n, fits + 1).res = "EntrySizeLimitExceeded"
          /\ WriteOp(storage, memory, n, fits + 1).val = storage.header.entry_size - 1

\* C16: in every reachable state the 2-byte length L stored in every allocated
\* slot satisfies L <= entry_size - 2, so that read of an allocated anchor
\* never aborts with 'persisted value size exceeds maximum size'.
C16_SlotsHoldRecords ==
    Alive =>
        \A n \in SampleAllocated(storage) :
            LET len_buf == AnchorReadExact(storage, memory,
                               RecordAddress(storage, n - storage.header.id_range_lo), 2)
            IN len_buf.ok => FromLE(len_buf.data) <= storage.header.entry_size - 2

\* C17: from_memory_v6_to_v7 on a stable memory whose header has version 7
\* returns the store of that memory and writes nothing, and migrating a
\* stable memory twice leaves the memory and the store of migrating it once.
C17_MigrationIdempotent ==
    \A checked \in BOOLEAN, again \in BOOLEAN :
        LET once == FromMemoryV6ToV7(memory, checked)
            twice == FromMemoryV6ToV7(once.mem, again)
        IN /\ (memory.pages >= 1 /\ DurableHeader(memory).version = 7) =>
                  /\ once.res = "Some"
                  /\ once.mem = memory
                  /\ Alive => once.st = storage
           /\ memory.pages >= 1 =>
                  /\ twice.mem = once.mem
                  /\ once.res = "Some" => twice.st = once.st

\* the persistent states written in the claims: the model's and one more
StateInputs == 1..(MaxStateValue + 1)

\* C18: after write_persistent_state(p), from_memory on the same stable memory
\* followed by read_persistent_state returns Ok(p); the anchor memory holds
\* 'IIPS', the length of the encoded state as 8 little-endian bytes and the
\* encoded state, from offset num_anchors * entry_size on.
C18_PersistentStateRoundTrip ==
    Alive =>
        \A p \in StateInputs :
            LET o == WritePersistentStateOp(storage, memory, p)
                r == FromMemory(o.mem)
                encoded_state == EncodeState(p)
            IN /\ o.res = "Ok"
               /\ o.st.header = storage.header
               /\ r.res = "Some"
               /\ r.st = o.st
               /\ ReadPersistentStateOp(r.st, r.mem) = [res |-> "Ok", val |-> p]
               /\ AnchorReadExact(o.st, o.mem,
                      WProd(storage.header.num_anchors, storage.header.entry_size),
                      12 + Len(encoded_state)).data
                    = PERSISTENT_STATE_MAGIC \o LE(Len(encoded_state), 8) \o encoded_state

\* a migrated store with anchors that holds a persistent state
C18_Witness ==
    /\ Alive
    /\ storage.kind = "Managed"
    /\ storage.header.num_anchors = SmallRange
    /\ ReadPersistentStateOp(storage, memory) = [res |-> "Ok", val |-> MaxStateValue]
    /\ FromMemory(memory).st = storage

\* C19: after write_persistent_state(p) and then an allocate_anchor that
\* returns an anchor number, read_persistent_state returns NotFound.
C19_AllocationDropsState ==
    Alive =>
        \A p \in StateInputs :
            LET o == WritePersistentStateOp(storage, memory, p)
                a == AllocateAnchorOp(o.st, o.mem)
            IN (o.res = "Ok" /\ a.res = "Some") =>
                   /\ ReadPersistentStateOp(o.st, o.mem).res = "Ok"
                   /\ ReadPersistentStateOp(a.st, a.mem).res = "NotFound"

\* a store that holds a persistent state and has an anchor number left
C19_Witness ==
    /\ Alive
    /\ storage.header.num_anchors = 1
    /\ ReadPersistentStateOp(storage, memory).res = "Ok"
    /\ LET a == AllocateAnchorOp(storage, memory)
       IN /\ a.res = "Some"
          /\ ReadPersistentStateOp(a.st, a.mem).res = "NotFound"

\* the first four header bytes given to from_memory: the magic or another
\* three bytes, and a version below, in and above the supported ones
MagicInputs == {STORAGE_MAGIC, <<73, 73, 68>>, <<0, 0, 0>>}
VersionInputs ==
    {0, MIN_SUPPORTED_VERSION - 1, MIN_SUPPORTED_VERSION, MAX_SUPPORTED_VERSION,
     MAX_SUPPORTED_VERSION + 1, 255}

\* C20: from_memory returns None for a memory of less than one page; aborts
\* for a magic other than 'IIC' (invalid magic), then for a version below 6
\* (no longer supported) and for a version of 8 or more (unsupported); and for
\* version 6 or 7 returns a store whose header is the 66 bytes at offset 0,
\* which it does not modify.
C20_FromMemoryChecks ==
    /\ FromMemory(EmptyMemory).res = "None"
    /\ FromMemory(EmptyMemory).mem = EmptyMemory
    /\ \A magic \in MagicInputs, version \in VersionInputs :
           LET m == MemWrite(memory, U64(0), magic \o <<version>>)
               r == FromMemory(m)
           IN IF magic # STORAGE_MAGIC
              THEN r.res = "Trap" /\ r.val = "invalid magic" /\ r.mem = m
              ELSE IF version < 6
              THEN r.res = "Trap" /\ r.val = "no longer supported" /\ r.mem = m
              ELSE IF version >= 8
              THEN r.res = "Trap" /\ r.val = "unsupported header version" /\ r.mem = m
              ELSE /\ r.res = "Some"
                   /\ r.st.header.version = version
                   /\ HeaderBytes(r.st.header) = MemRead(m, U64(0), HEADER_SIZE)
                   /\ MemRead(r.mem, U64(0), HEADER_SIZE) = MemRead(m, U64(0), HEADER_SIZE)
                   /\ r.st.kind = IF version = 6 THEN "Single" ELSE "Managed"

\* a migrated store with anchors and a salt: from_memory returns it, and
\* refuses the same memory with the version before the first supported one
C20_Witness ==
    /\ Alive
    /\ storage.header.version = 7
    /\ storage.header.num_anchors = SmallRange
    /\ SaltIsSet(storage)
    /\ FromMemory(memory).res = "Some"
    /\ HeaderBytes(FromMemory(memory).st.header) = MemRead(memory, U64(0), HEADER_SIZE)
    /\ FromMemory(MemWrite(memory, U64(0),
           STORAGE_MAGIC \o <<MIN_SUPPORTED_VERSION - 1>>)).val = "no longer supported"

\* C21: for every v6 store whose anchor memory has p pages, the migration,
\* with the code's u16 arithmetic, records num_allocated_buckets =
\* ceil(p / 128) and memory_sizes_in_pages[0] = p in the memory manager's
\* header and grows the stable memory so that the bucket region from page 2 on
\* has at least num_allocated_buckets * 128 pages, hence
\* memory_sizes_in_pages[0] <= (buckets of memory 0) * 128.
C21_MigrationBuckets ==
    IsV6 =>
        \A checked \in BOOLEAN :
            LET p == AnchorSize(storage, memory)
                o == FromMemoryV6ToV7(memory, checked)
            IN /\ o.res = "Some"
               /\ o.st.mm.allocated_buckets = CeilDiv(p, BUCKET_SIZE_IN_PAGES)
               /\ o.st.mm.size0 = p
               /\ o.mem.pages - BUCKETS_OFFSET_IN_PAGES - 1
                      >= o.st.mm.allocated_buckets * BUCKET_SIZE_IN_PAGES
               /\ o.st.mm.size0 <= Len(o.st.mm.buckets0) * BUCKET_SIZE_IN_PAGES

\* the runs of equal bytes that one of two memories has and the other has not
ChangedRuns(m1, m2) == (m1.runs \cup m2.runs) \ (m1.runs \cap m2.runs)

\* C22: from_memory_v6_to_v7 changes no byte of the stable memory from page 2
\* on: it writes the 66 header bytes on page 0 and the memory manager's header
\* and bucket table on page 1 only, it never shrinks the memory, and every
\* anchor record of the anchor memory has the same address in the stable memory
\* before and after.
C22_MigrationFrame ==
    IsV6 =>
        \A checked \in BOOLEAN :
            LET o == FromMemoryV6ToV7(memory, checked)
            IN /\ \A x \in Changed(memory, o.mem) :
                      \/ x[1] = 0 /\ x[2] < HEADER_SIZE
                      \/ x[1] = MMBase.lo
               /\ \A q \in ChangedRuns(memory, o.mem) :
                      /\ q.lo[1] = MMBase.lo
                      /\ WLeq(WAdd(q.lo, q.len), U64(ENTRY_OFFSET))
               /\ o.mem.pages >= memory.pages
               /\ o.res = "Some" =>
                      \A n \in SampleAllocated(storage) :
                          LET slot == RecordAddress(storage, n - storage.header.id_range_lo)
                          IN WLess(slot, <<AnchorSize(storage, memory), 0>>) =>
                                 AnchorAddr(o.st, slot) = AnchorAddr(storage, slot)

\* a v6 store with written anchors and a persistent state, whose migration
\* returns a store and changes bytes of the first two pages
C22_Witness ==
    /\ IsV6
    /\ storage.header.num_anchors = SmallRange
    /\ ReadOp(storage, memory, storage.header.id_range_lo + 1).res = "Ok"
    /\ ReadPersistentStateOp(storage, memory).res = "Ok"
    /\ LET o == FromMemoryV6ToV7(memory, TRUE)
       IN /\ o.res = "Some"
          /\ \E x \in Changed(memory, o.mem) : x[1] = 0
          /\ \E x \in Changed(memory, o.mem) : x[1] = MMBase.lo
          /\ ReadOp(o.st, o.mem, storage.header.id_range_lo + 1).res = "Ok"

\* does an operation's outcome differ from the memory m it started on in the
\* 66 header bytes at offset 0 only, the store keeping its anchor memory
HeaderBytesOnly(st, m, o) ==
    /\ \A x \in Changed(m, o.mem) : x[1] = 0 /\ x[2] < HEADER_SIZE
    /\ ChangedRuns(m, o.mem) = {}
    /\ o.mem.pages = m.pages
    /\ o.st.kind = st.kind
    /\ o.st.mm = st.mm

\* C23: allocate_anchor, update_salt and set_anchor_number_range write the 66
\* header bytes at offset 0 of the stable memory and nothing else: no byte of
\* the anchor memory changes and allocate_anchor leaves the slot it allocates
\* as it found it.
C23_HeaderOperationsFrame ==
    Alive =>
        /\ LET o == AllocateAnchorOp(storage, memory)
               slot == RecordAddress(storage, storage.header.num_anchors)
           IN /\ HeaderBytesOnly(storage, memory, o)
              /\ AnchorReadExact(o.st, o.mem, slot, storage.header.entry_size)
                     = AnchorReadExact(storage, memory, slot, storage.header.entry_size)
        /\ \A k \in 0..NumSalts :
               HeaderBytesOnly(storage, memory, UpdateSaltOp(storage, memory, Salt(k)))
        /\ \A r \in C10Inputs :
               HeaderBytesOnly(storage, memory,
                               SetAnchorNumberRangeOp(storage, memory, r[1], r[2]))

\* a managed store with one anchor, a persistent state in the next slot and no
\* salt: each of the three operations succeeds, and the allocated slot keeps
\* the persistent state's magic
C23_Witness ==
    /\ Alive
    /\ storage.kind = "Managed"
    /\ storage.header.num_anchors = 1
    /\ ReadPersistentStateOp(storage, memory).res = "Ok"
    /\ LET o == AllocateAnchorOp(storage, memory)
       IN /\ o.res = "Some"
          /\ Changed(memory, o.mem) # {}
          /\ AnchorReadExact(o.st, o.mem, RecordAddress(storage, 1), 4).data
                 = PERSISTENT_STATE_MAGIC
    /\ UpdateSaltOp(storage, memory, Salt(NumSalts)).res = "Ok"
    /\ SetAnchorNumberRangeOp(storage, memory, storage.header.id_range_lo,
                              storage.header.id_range_lo + 1).res = "Ok"

\* a length no anchor memory of the model has room for behind a magic
UnreadableLength == 2 * WASM_PAGE_SIZE

\* the stable memory with the length behind the persistent state's magic
\* replaced by UnreadableLength
WithUnreadableLength(st, m) ==
    MemWrite(m, AnchorAddr(st, WAdd(UnusedMemoryStart(st), 4)), LE(UnreadableLength, 8))

\* C24: read_persistent_state returns NotFound whenever unused_memory_start()
\* is at or beyond the end of the anchor memory or the 4 bytes there are not
\* 'IIPS', so on a fresh store and on one without a persistent state, and
\* returns ReadError only when the magic is there and the length or the
\* payload cannot be read; it never aborts.
C24_MissingStateNotFound ==
    Alive =>
        LET address == UnusedMemoryStart(storage)
            r == ReadPersistentStateOp(storage, memory)
            past == WLeq(<<AnchorSize(storage, memory), 0>>, address)
            magic_buf == AnchorReadExact(storage, memory, address, 4)
            magic == ~past /\ magic_buf.ok /\ magic_buf.data = PERSISTENT_STATE_MAGIC
        IN /\ r.res \in {"Ok", "NotFound", "ReadError", "CandidError"}
           /\ ~magic => r.res = "NotFound"
           /\ magic => r.res = "Ok"
           /\ magic => ReadPersistentStateOp(storage,
                           WithUnreadableLength(storage, memory)).res = "ReadError"
           /\ LET fresh == New(storage.header.id_range_lo, storage.header.id_range_hi,
                               storage.kind)
              IN fresh.res = "Ok" => ReadPersistentStateOp(fresh.st, fresh.mem).res = "NotFound"

\* a store with written anchors whose next slot lies in the anchor memory and
\* holds no persistent state, the one written earlier being in an allocated slot
C24_Witness ==
    /\ Alive
    /\ storage.header.num_anchors = SmallRange
    /\ WLess(UnusedMemoryStart(storage), <<AnchorSize(storage, memory), 0>>)
    /\ AnchorReadExact(storage, memory, RecordAddress(storage, 1), 4).data
           = PERSISTENT_STATE_MAGIC
    /\ ReadPersistentStateOp(storage, memory).res = "NotFound"

\* read(n) of the store that from_memory recovers from a stable memory
DurableRead(m, n) == ReadOp(FromMemory(m).st, FromMemory(m).mem, n)

\* a step keeps what every written anchor reads, in the store recovered from
\* the stable memory and in the store held, unless it is a write of that anchor,
\* which then reads the value written
ReadsKept ==
    \A n \in SampleAllocated(FromMemory(memory).st) :
        LET before == DurableRead(memory, n)
            after == DurableRead(memory', n)
        IN before.res = "Ok" =>
               /\ \/ after = before
                  \/ \E a \in 1..MaxAnchorValue :
                         /\ WriteOp(storage, memory, n, a) = Outcome(storage', memory', "Ok", 0)
                         /\ after = [res |-> "Ok", val |-> a]
               /\ Alive' => ReadOp(storage', memory', n) = after

\* C25: read(n) of a written anchor returns the value of the last successful
\* write(n, .) in every later state, whatever operation comes between: writes
\* of other anchors, failed writes, allocate_anchor, update_salt,
\* set_anchor_number_range, write_persistent_state, a restart through
\* from_memory and the migration to v7.
C25_LastWriteWins == [][ReadsKept]_vars

\* read_persistent_state of the store that from_memory recovers from a memory
DurableState(m) == ReadPersistentStateOp(FromMemory(m).st, FromMemory(m).mem)

\* a step that allocates no anchor keeps the persistent state, in the store
\* recovered from the stable memory and in the store held, unless it is a
\* write_persistent_state, which then reads the state written
StateKept ==
    LET before == DurableState(memory)
        after == DurableState(memory')
    IN (/\ before.res = "Ok"
        /\ DurableHeader(memory').num_anchors = DurableHeader(memory).num_anchors) =>
           /\ \/ after = before
              \/ \E p \in 1..MaxStateValue :
                     /\ WritePersistentStateOp(storage, memory, p)
                            = Outcome(storage', memory', "Ok", 0)
                     /\ after = [res |-> "Ok", val |-> p]
           /\ Alive' => ReadPersistentStateOp(storage', memory') = after

\* C26: a persistent state written with write_persistent_state(p) is returned
\* by read_persistent_state after every sequence of operations that allocates
\* no anchor: writes of allocated anchors, update_salt,
\* set_anchor_number_range, a restart through from_memory and the migration
\* of a v6 store with from_memory_v6_to_v7.
C26_StateSurvives == [][StateKept]_vars

\* what a call returns to its caller
Returned(o) == [res |-> o.res, val |-> o.val]

\* C27: a flat (v6) and a managed (v7) store created by new with the same id
\* range and driven by the same calls have equal headers except for the
\* version, and every allocate_anchor, write, read, update_salt,
\* set_anchor_number_range, write_persistent_state and read_persistent_state
\* returns the same result or error on both.
C27_LayoutsEquivalent ==
    LET f == storage.Single
        g == storage.Managed
        fm == memory.Single
        gm == memory.Managed
    IN /\ f.kind = "Single" <=> g.kind = "Managed"
       /\ f.kind = "None" <=> g.kind = "None"
       /\ PairAlive =>
              /\ g.header = [f.header EXCEPT !.version = 7]
              /\ f.header.version = 6
              /\ Returned(AllocateAnchorOp(f, fm)) = Returned(AllocateAnchorOp(g, gm))
              /\ \A n \in EdgeNumbers(f) :
                     /\ ReadOp(f, fm, n) = ReadOp(g, gm, n)
                     /\ \A a \in (1..MaxAnchorValue) \cup LimitValues(f) :
                            Returned(WriteOp(f, fm, n, a)) = Returned(WriteOp(g, gm, n, a))
              /\ SaltOp(f) = SaltOp(g)
              /\ \A k \in 0..NumSalts :
                     Returned(UpdateSaltOp(f, fm, Salt(k)))
                         = Returned(UpdateSaltOp(g, gm, Salt(k)))
              /\ \A r \in PairRangeInputs :
                     Returned(SetAnchorNumberRangeOp(f, fm, r[1], r[2]))
                         = Returned(SetAnchorNumberRangeOp(g, gm, r[1], r[2]))
              /\ \A p \in StateInputs :
                     Returned(WritePersistentStateOp(f, fm, p))
                         = Returned(WritePersistentStateOp(g, gm, p))
              /\ ReadPersistentStateOp(f, fm) = ReadPersistentStateOp(g, gm)

\* the two stores with the same written anchors, salt and persistent state,
\* the flat one on its pages from 2 on and the managed one in a bucket
C27_Witness ==
    /\ PairAlive
    /\ storage.Single.kind = "Single"
    /\ storage.Managed.kind = "Managed"
    /\ storage.Managed.mm.allocated_buckets > 0
    /\ storage.Single.header.num_anchors = SmallRange
    /\ SaltIsSet(storage.Managed)
    /\ ReadOp(storage.Single, memory.Single, IdLo + 1) = [res |-> "Ok", val |-> MaxAnchorValue]
    /\ ReadOp(storage.Managed, memory.Managed, IdLo + 1) = [res |-> "Ok", val |-> MaxAnchorValue]
    /\ ReadPersistentStateOp(storage.Managed, memory.Managed).res = "Ok"
    /\ memory.Single # memory.Managed

====
